---- MODULE Spec2Model ----
(***************************************************************************)
(* filter.py of good-twitter: one batch-classify-merge run.                *)
(*                                                                         *)
(* Python dicts are functions from field names to values; a missing field  *)
(* is a name outside the DOMAIN.  The dicts of the input batch live in     *)
(* `heap` (index = position in collected.json) and every Python list of    *)
(* tweets is a sequence of references into `heap`, as Python lists hold    *)
(* references to the same dict objects.  Python list index i is sequence   *)
(* index i + 1.                                                            *)
(***************************************************************************)
EXTENDS Integers, Sequences, FiniteSets, TLC

VARIABLES
    pc,                       \* position of main()
    api_key,                  \* os.environ.get('ANTHROPIC_API_KEY') is set
    collected,                \* data/collected.json (INPUT_PATH)
    filtered,                 \* data/filtered.json (OUTPUT_PATH)
    gist,                     \* config.sh + the gist's collected.json
    heap,                     \* the dict objects json.load(INPUT_PATH) made
    tweets,                   \* main: tweets
    existing_classifications, \* main: existing_classifications
    already_classified,       \* main: already_classified
    needs_classification,     \* main: needs_classification
    submitted,                \* number of args of args_list submitted
    st,                       \* state of each future / process_tweet call
    served,                   \* the replies of the service, per call
    log,                      \* the requests and sleeps of classify_tweet, per call
    classification,           \* process_tweet: classification, per call
    yielded,                  \* futures as_completed has yielded
    new_results,              \* main: new_results (0 is None)
    slot_writes,              \* assignments made to new_results[index]
    completed,                \* main: completed
    kept_count,               \* main: kept_count
    all_results,              \* main: all_results
    writes                    \* json.dump calls made on OUTPUT_PATH

vars == << pc, api_key, collected, filtered, gist, heap, tweets,
           existing_classifications, already_classified, needs_classification,
           submitted, st, served, log, classification, yielded,
           new_results, slot_writes, completed, kept_count, all_results,
           writes >>

(***************************************************************************)
(* Program constants                                                       *)
(***************************************************************************)
KeyPrefixLen == 50
max_retries == 3
max_workers == 5

(***************************************************************************)
(* Bounds of the model                                                     *)
(***************************************************************************)
MaxBatch == 3

(***************************************************************************)
(* Python values                                                           *)
(***************************************************************************)
None == "<None>"

Get(t, f) == IF f \in DOMAIN t THEN t[f] ELSE None

GetD(t, f, d) == IF f \in DOMAIN t THEN t[f] ELSE d

\* v or ''
OrEmpty(v) == IF v = None THEN "" ELSE v

\* s[:n]
Prefix(s, n) == IF Len(s) <= n THEN s ELSE SubSeq(s, 1, n)

\* Key without the [:50] on the text
KeyWholeText(t) == OrEmpty(Get(t, "handle")) \o OrEmpty(Get(t, "text"))

\* key = (t.get('handle') or '') + (t.get('text') or '')[:50]
Key(t) == OrEmpty(Get(t, "handle")) \o Prefix(OrEmpty(Get(t, "text")), KeyPrefixLen)

ClsFields == {"_skip", "_skip_reason", "_quality", "_topic", "_summary"}

OtherFields == {"handle", "name", "text", "links", "ts"}

\* t.update(rec)
Update(t, rec) ==
    [k \in DOMAIN t \cup DOMAIN rec |-> IF k \in DOMAIN rec THEN rec[k] ELSE t[k]]

\* the record add_classifications stores for t
RecordOf(t) ==
    [_skip |-> Get(t, "_skip"), _skip_reason |-> Get(t, "_skip_reason"),
     _quality |-> Get(t, "_quality"), _topic |-> Get(t, "_topic"),
     _summary |-> Get(t, "_summary")]

EmptyDict == [k \in {} |-> None]

(***************************************************************************)
(* Pure parts of main()                                                    *)
(***************************************************************************)
\* AddOne where a later item replaces the record of its key
AddOneLastWins(cache, t) ==
    IF "_skip" \in DOMAIN t
        THEN (Key(t) :> RecordOf(t)) @@ cache
        ELSE cache

\* an element of a JSON document that is not an object (a number), and the
\* test that tells it from a tweet: on such a t, `'_skip' in t` (line 114)
\* raises TypeError
JsonNumber == [nondict |-> TRUE]

IsDict(t) == "nondict" \notin DOMAIN t

\* add_classifications, one t of tweets_list
AddOne(cache, t) ==
    IF "_skip" \in DOMAIN t /\ Key(t) \notin DOMAIN cache
        THEN cache @@ (Key(t) :> RecordOf(t))
        ELSE cache

RECURSIVE AddFrom(_, _, _)
AddFrom(cache, tweets_list, i) ==
    IF i > Len(tweets_list) \/ ~IsDict(tweets_list[i])
        THEN cache
        ELSE AddFrom(AddOne(cache, tweets_list[i]), tweets_list, i + 1)

\* add_classifications(tweets_list, source_name); the loop ends at the end of
\* the list or by the TypeError that the callers catch (lines 133, 157), the
\* records inserted until then staying in the cache
add_classifications(cache, tweets_list) == AddFrom(cache, tweets_list, 1)

\* BackfillOne that copies nothing
BackfillNothing(t, cache) == t

\* BackfillOne that looks the tweet up under handle + whole text
BackfillByWholeText(t, cache) ==
    IF KeyWholeText(t) \in DOMAIN cache /\ "_skip" \notin DOMAIN t
        THEN Update(t, cache[KeyWholeText(t)])
        ELSE t

\* BackfillOne that copies the skip field alone
BackfillSkipOnly(t, cache) ==
    IF Key(t) \in DOMAIN cache /\ "_skip" \notin DOMAIN t
        THEN Update(t, [_skip |-> cache[Key(t)]["_skip"]])
        ELSE t

\* BackfillOne that also overwrites the fields of a classified tweet
BackfillOverwrite(t, cache) ==
    IF Key(t) \in DOMAIN cache
        THEN Update(t, cache[Key(t)])
        ELSE t

\* lines 164-166, one t of tweets
BackfillOne(t, cache) ==
    IF Key(t) \in DOMAIN cache /\ "_skip" \notin DOMAIN t
        THEN Update(t, cache[Key(t)])
        ELSE t

\* lines 169-175: unique_tweets, over the references refs[i..]
RECURSIVE DedupFrom(_, _, _, _, _)
DedupFrom(h, refs, i, seen, unique_tweets) ==
    IF i > Len(refs)
        THEN unique_tweets
        ELSE LET key == Key(h[refs[i]]) IN
             IF key \notin seen
                 THEN DedupFrom(h, refs, i + 1, seen \cup {key},
                                Append(unique_tweets, refs[i]))
                 ELSE DedupFrom(h, refs, i + 1, seen, unique_tweets)

\* Deduplicate that drops nothing
DeduplicateNothing(h, refs) == refs

\* Deduplicate that keeps the last occurrence of a key
DeduplicateKeepLast(h, refs) ==
    SelectSeq(refs, LAMBDA r :
        \A i \in 1..Len(refs) : refs[i] > r => Key(h[refs[i]]) # Key(h[r]))

Deduplicate(h, refs) == DedupFrom(h, refs, 1, {}, <<>>)

\* '_skip' in t
HasSkip(t) == "_skip" \in DOMAIN t

\* key=lambda t: t.get('ts', 0)
SortKey(t) == GetD(t, "ts", 0)

\* list.sort is stable, also with reverse=True: r goes after every element
\* whose key is >= its own
RECURSIVE InsertDesc(_, _, _)
InsertDesc(h, sorted, r) ==
    IF sorted = <<>>
        THEN << r >>
        ELSE IF SortKey(h[Head(sorted)]) >= SortKey(h[r])
                 THEN << Head(sorted) >> \o InsertDesc(h, Tail(sorted), r)
                 ELSE << r >> \o sorted

RECURSIVE SortFrom(_, _, _, _)
SortFrom(h, refs, i, sorted) ==
    IF i > Len(refs)
        THEN sorted
        ELSE SortFrom(h, refs, i + 1, InsertDesc(h, sorted, refs[i]))

\* the sort left out
SortNothing(h, refs) == refs

\* all_results.sort(key=lambda t: t.get('ts', 0), reverse=True)
SortByTs(h, refs) == SortFrom(h, refs, 1, <<>>)

\* Dump of the kept tweets only
DumpKept(h, refs) ==
    LET kept == SelectSeq(refs, LAMBDA r : ~GetD(h[r], "_skip", FALSE)) IN
    [i \in 1..Len(kept) |-> h[kept[i]]]

\* json.dump(refs, f): the dicts the references point to, by value
Dump(h, refs) == [i \in 1..Len(refs) |-> h[refs[i]]]

\* len([t for t in refs if not t.get('_skip', False)])
KeptOf(h, refs) == Len(SelectSeq(refs, LAMBDA r : ~GetD(h[r], "_skip", FALSE)))

(***************************************************************************)
(* The classifier client and the worker                                    *)
(***************************************************************************)
\* {"skip": False, "quality": "medium", "topic": "unknown", "summary": ""}
DefaultRecord ==
    [type |-> "object",
     fields |-> [skip |-> FALSE, quality |-> "medium", topic |-> "unknown",
                 summary |-> ""]]

\* what one client.messages.create call and the parsing of its reply end in:
\* RateLimitError, another exception, or the value json.loads returns
Reply(kind, value) == [kind |-> kind, value |-> value]

\* the service as classify_tweet meets it: its replies to the successive
\* requests for one tweet, the last one repeated from there on
ReplyAt(replies, n) == replies[IF n <= Len(replies) THEN n ELSE Len(replies)]

Request == [ev |-> "request", secs |-> 0]

Sleep(secs) == [ev |-> "sleep", secs |-> secs]

\* wait_time = 2 ** attempt
WaitTime(a) == 2 ^ a

\* a function that falls off its end returns None
PyNone == [type |-> "null", fields |-> EmptyDict]

\* lines 42-69: the for loop from `attempt` on; events is what the call did
\* so far
RECURSIVE ClassifyFrom(_, _, _)
ClassifyFrom(replies, a, events) ==
    IF a >= max_retries
        THEN [value |-> PyNone, log |-> events]
        ELSE LET reply == ReplyAt(replies, a + 1)
                 sent == Append(events, Request)
             IN  CASE reply.kind = "json" ->
                          [value |-> reply.value, log |-> sent]
                   [] reply.kind = "rate_limit" ->
                          LET slept == Append(sent, Sleep(WaitTime(a))) IN
                          IF a = max_retries - 1
                              THEN [value |-> DefaultRecord, log |-> slept]
                              ELSE ClassifyFrom(replies, a + 1, slept)
                   [] OTHER ->
                          [value |-> DefaultRecord, log |-> sent]

\* classify_tweet whose loop makes one attempt more
RECURSIVE ClassifyOneMoreFrom(_, _, _)
ClassifyOneMoreFrom(replies, a, events) ==
    LET reply == ReplyAt(replies, a + 1)
        sent == Append(events, Request)
    IN  CASE reply.kind = "json" ->
                 [value |-> reply.value, log |-> sent]
          [] reply.kind = "rate_limit" ->
                 LET slept == Append(sent, Sleep(WaitTime(a))) IN
                 IF a = max_retries
                     THEN [value |-> DefaultRecord, log |-> slept]
                     ELSE ClassifyOneMoreFrom(replies, a + 1, slept)
          [] OTHER ->
                 [value |-> DefaultRecord, log |-> sent]

classify_tweet_one_more(replies) == ClassifyOneMoreFrom(replies, 0, <<>>)

\* classify_tweet(client, tweet)
classify_tweet(replies) == ClassifyFrom(replies, 0, <<>>)

\* Classified with the skip reason of the reply also on a kept tweet
ClassifiedWithReason(t, fields) ==
    Update(t, [_skip |-> GetD(fields, "skip", FALSE),
               _skip_reason |-> GetD(fields, "skip_reason", ""),
               _quality |-> GetD(fields, "quality", "medium"),
               _topic |-> GetD(fields, "topic", ""),
               _summary |-> GetD(fields, "summary", "")])

\* lines 79-89: the fields process_tweet sets from classification.get(...)
Classified(t, fields) ==
    LET skip == GetD(fields, "skip", FALSE) IN
    Update(t, [_skip |-> skip,
               _skip_reason |-> IF skip THEN GetD(fields, "skip_reason", "") ELSE None,
               _quality |-> GetD(fields, "quality", "medium"),
               _topic |-> GetD(fields, "topic", ""),
               _summary |-> GetD(fields, "summary", "")])

(***************************************************************************)
(* The inputs of a run                                                     *)
(***************************************************************************)
X50 == "xxxxxxxxxxxxxxxxxxxxxxxxxxxxxxxxxxxxxxxxxxxxxxxxxx"

Rec(skip, reason, quality, topic, summary) ==
    [_skip |-> skip, _skip_reason |-> reason, _quality |-> quality,
     _topic |-> topic, _summary |-> summary]

\* two texts that differ only past character 50, under one handle
TweetA1 == [handle |-> "a", name |-> "A", text |-> X50 \o "y", links |-> <<>>, ts |-> 5]
TweetA2 == [handle |-> "a", name |-> "A", text |-> X50 \o "z", links |-> << "u" >>, ts |-> 9]
\* the same post, classified by an earlier run
TweetA3 == Update([TweetA1 EXCEPT !.ts = 1], Rec(TRUE, "bait", "low", "hype", "own"))
\* no text and no timestamp
TweetB1 == [handle |-> "bc", name |-> "B", links |-> <<>>]
TweetB2 == Update(TweetB1 @@ [ts |-> 5], Rec(FALSE, None, "high", "ml", "kept"))
\* "handle": null; its key is the key of TweetB1
TweetN1 == [handle |-> None, name |-> "N", text |-> "bc", links |-> <<>>, ts |-> 9]

TweetPool == {TweetA1, TweetA2, TweetA3, TweetB1, TweetB2, TweetN1}

RECURSIVE SeqsUpTo(_, _)
SeqsUpTo(S, n) ==
    IF n = 0
        THEN {<<>>}
        ELSE LET shorter == SeqsUpTo(S, n - 1) IN
             shorter \cup {Append(s, x) : s \in {q \in shorter : Len(q) = n - 1}, x \in S}

\* data/collected.json
CollectedPool == SeqsUpTo(TweetPool, MaxBatch)

\* data/filtered.json: absent, unreadable, the output of an earlier run, or a
\* list with an element that is no object
FilteredPool ==
    {[exists |-> FALSE, ok |-> FALSE, data |-> <<>>],
     [exists |-> TRUE, ok |-> FALSE, data |-> <<>>],
     [exists |-> TRUE, ok |-> TRUE,
      data |-> << Update(TweetA2, Rec(FALSE, None, "high", "ml", "local1")),
                  Update(TweetA1, Rec(TRUE, "spam", "low", "ads", "local2")),
                  TweetB1 >>],
     [exists |-> TRUE, ok |-> TRUE,
      data |-> << Update(TweetN1, Rec(TRUE, "joke", "low", "fun", "local3")),
                  JsonNumber,
                  Update(TweetA1, Rec(TRUE, "dup", "low", "ads", "local4")) >>]}

\* config.sh without GIST_ID, a fetch that fails, or the gist's document
GistPool ==
    {[configured |-> FALSE, ok |-> FALSE, data |-> <<>>],
     [configured |-> TRUE, ok |-> FALSE, data |-> <<>>],
     [configured |-> TRUE, ok |-> TRUE,
      data |-> << Update(TweetA1, Rec(FALSE, None, "medium", "news", "gist1")),
                  Update(TweetB1, Rec(FALSE, None, "low", "misc", "gist2")) >>]}

\* json.loads of the reply: two objects and a value that is no object
JsonSkip ==
    [type |-> "object",
     fields |-> [skip |-> TRUE, skip_reason |-> "hype", quality |-> "low",
                 topic |-> "ai", summary |-> "s1"]]

JsonKeep ==
    [type |-> "object", fields |-> [skip |-> FALSE, quality |-> "high", summary |-> "s2"]]

JsonArray == [type |-> "array", fields |-> EmptyDict]

RateLimited == Reply("rate_limit", PyNone)

Failed == Reply("error", PyNone)

\* the replies of the service to the requests for one tweet
ReplyPool ==
    {<< Reply("json", JsonArray) >>,
     << RateLimited, RateLimited, Reply("json", JsonSkip) >>,
     << RateLimited >>,
     << Failed >>}

\* main() has not started
Start ==
    /\ pc = "check_key"
    /\ heap = <<>>
    /\ tweets = <<>>
    /\ existing_classifications = EmptyDict
    /\ already_classified = <<>>
    /\ needs_classification = <<>>
    /\ submitted = 0
    /\ st = <<>>
    /\ served = <<>>
    /\ log = <<>>
    /\ classification = <<>>
    /\ yielded = {}
    /\ new_results = <<>>
    /\ slot_writes = <<>>
    /\ completed = 0
    /\ kept_count = 0
    /\ all_results = <<>>
    /\ writes = 0

Init ==
    /\ Start
    /\ api_key \in BOOLEAN
    /\ collected \in [exists : BOOLEAN, data : CollectedPool]
    /\ ~collected.exists => collected.data = <<>>
    /\ filtered \in FilteredPool
    /\ gist \in GistPool

(***************************************************************************)
(* main(), up to the worker pool                                           *)
(***************************************************************************)
mainVars == << tweets, existing_classifications, already_classified,
               needs_classification, all_results >>

poolVars == << submitted, st, served, log, classification,
               yielded, new_results, slot_writes, completed >>

envVars == << api_key, collected, gist >>

\* CheckKey going on without the credential
CheckKeyIgnored ==
    /\ pc = "check_key"
    /\ pc' = "check_input"
    /\ UNCHANGED << envVars, filtered, heap, mainVars, poolVars, kept_count, writes >>

\* lines 95-97
CheckKey ==
    /\ pc = "check_key"
    /\ pc' = IF api_key THEN "check_input" ELSE "exit1"
    /\ UNCHANGED << envVars, filtered, heap, mainVars, poolVars, kept_count, writes >>

\* lines 99-101
CheckInput ==
    /\ pc = "check_input"
    /\ pc' = IF collected.exists THEN "load" ELSE "exit1"
    /\ UNCHANGED << envVars, filtered, heap, mainVars, poolVars, kept_count, writes >>

\* lines 103-109
Load ==
    /\ pc = "load"
    /\ heap' = collected.data
    /\ tweets' = [i \in 1..Len(collected.data) |-> i]
    /\ existing_classifications' = EmptyDict
    /\ pc' = "load_local"
    /\ UNCHANGED << envVars, filtered, already_classified, needs_classification,
                    all_results, poolVars, kept_count, writes >>

\* lines 128-134
LoadLocal ==
    /\ pc = "load_local"
    /\ existing_classifications' =
          IF filtered.exists /\ filtered.ok
              THEN add_classifications(existing_classifications, filtered.data)
              ELSE existing_classifications
    /\ pc' = "load_gist"
    /\ UNCHANGED << envVars, filtered, heap, tweets, already_classified,
                    needs_classification, all_results, poolVars, kept_count, writes >>

\* lines 136-160
LoadGist ==
    /\ pc = "load_gist"
    /\ existing_classifications' =
          IF gist.configured /\ gist.ok
              THEN add_classifications(existing_classifications, gist.data)
              ELSE existing_classifications
    /\ pc' = "backfill"
    /\ UNCHANGED << envVars, filtered, heap, tweets, already_classified,
                    needs_classification, all_results, poolVars, kept_count, writes >>

\* lines 162-166
Backfill ==
    /\ pc = "backfill"
    /\ heap' = [r \in DOMAIN heap |-> BackfillOne(heap[r], existing_classifications)]
    /\ pc' = "dedup"
    /\ UNCHANGED << envVars, filtered, mainVars, poolVars, kept_count, writes >>

\* lines 168-179
Dedup ==
    /\ pc = "dedup"
    /\ tweets' = Deduplicate(heap, tweets)
    /\ pc' = "partition"
    /\ UNCHANGED << envVars, filtered, heap, existing_classifications,
                    already_classified, needs_classification, all_results,
                    poolVars, kept_count, writes >>

\* lines 181-185
Partition ==
    /\ pc = "partition"
    /\ already_classified' = SelectSeq(tweets, LAMBDA r : HasSkip(heap[r]))
    /\ needs_classification' = SelectSeq(tweets, LAMBDA r : ~HasSkip(heap[r]))
    /\ pc' = "branch"
    /\ UNCHANGED << envVars, filtered, heap, tweets, existing_classifications,
                    all_results, poolVars, kept_count, writes >>

\* lines 187-194
ShortCircuit ==
    /\ pc = "branch"
    /\ needs_classification = <<>>
    /\ filtered' = [exists |-> TRUE, ok |-> TRUE, data |-> Dump(heap, tweets)]
    /\ writes' = writes + 1
    /\ kept_count' = KeptOf(heap, tweets)
    /\ pc' = "done"
    /\ UNCHANGED << envVars, heap, mainVars, poolVars >>

\* lines 196-204
Dispatch ==
    /\ pc = "branch"
    /\ needs_classification # <<>>
    /\ LET N == Len(needs_classification) IN
       /\ new_results' = [i \in 1..N |-> 0]
       /\ slot_writes' = [i \in 1..N |-> 0]
       /\ st' = [i \in 1..N |-> "pending"]
       /\ served' = [i \in 1..N |-> <<>>]
       /\ log' = [i \in 1..N |-> <<>>]
       /\ classification' = [i \in 1..N |-> [type |-> "none", fields |-> EmptyDict]]
    /\ kept_count' = 0
    /\ completed' = 0
    /\ pc' = "submit"
    /\ UNCHANGED << envVars, filtered, heap, mainVars, submitted, yielded, writes >>

(***************************************************************************)
(* The worker pool: ThreadPoolExecutor(max_workers=5)                      *)
(***************************************************************************)
Calls == DOMAIN st

\* a thread of the pool is inside process_tweet for call i
Busy(i) == st[i] \in {"running", "classified"}

Finished(i) == st[i] \in {"done", "raised"}

\* line 207, one executor.submit(process_tweet, args)
Submit ==
    /\ pc = "submit"
    /\ submitted < Len(needs_classification)
    /\ st' = [st EXCEPT ![submitted + 1] = "queued"]
    /\ submitted' = submitted + 1
    /\ pc' = IF submitted + 1 = Len(needs_classification) THEN "collect" ELSE "submit"
    /\ UNCHANGED << envVars, filtered, heap, mainVars, served, log,
                    classification, yielded, new_results, slot_writes, completed,
                    kept_count, writes >>

\* StartCall with a thread for every queued call
StartCallUnbounded(i) ==
    /\ st[i] = "queued"
    /\ \A j \in Calls : st[j] = "queued" => i <= j
    /\ st' = [st EXCEPT ![i] =
                 IF GetD(heap[needs_classification[i]], "handle", "") = None
                     THEN "raised"
                     ELSE "running"]
    /\ UNCHANGED << pc, envVars, filtered, heap, mainVars, submitted, served,
                    log, classification, yielded, new_results, slot_writes,
                    completed, kept_count, writes >>

\* a free thread takes the oldest queued call; lines 74-75 and 35-40.
\* tweet.get('handle', '')[:15] raises TypeError on "handle": null
StartCall(i) ==
    /\ st[i] = "queued"
    /\ \A j \in Calls : st[j] = "queued" => i <= j
    /\ Cardinality({j \in Calls : Busy(j)}) < max_workers
    /\ st' = [st EXCEPT ![i] =
                 IF GetD(heap[needs_classification[i]], "handle", "") = None
                     THEN "raised"
                     ELSE "running"]
    /\ UNCHANGED << pc, envVars, filtered, heap, mainVars, submitted, served,
                    log, classification, yielded, new_results, slot_writes,
                    completed, kept_count, writes >>

\* line 77: classification = classify_tweet(client, tweet), the service
\* replying with `replies`
ClassifyTweet(i, replies) ==
    /\ st[i] = "running"
    /\ LET ret == classify_tweet(replies) IN
       /\ classification' = [classification EXCEPT ![i] = ret.value]
       /\ log' = [log EXCEPT ![i] = ret.log]
    /\ served' = [served EXCEPT ![i] = replies]
    /\ st' = [st EXCEPT ![i] = "classified"]
    /\ UNCHANGED << pc, envVars, filtered, heap, mainVars, submitted, yielded,
                    new_results, slot_writes, completed, kept_count, writes >>

\* lines 79-91: classification.get raises AttributeError unless
\* classification is a dict
ProcessTweet(i) ==
    /\ st[i] = "classified"
    /\ IF classification[i].type = "object"
           THEN /\ heap' = [heap EXCEPT ![needs_classification[i]] =
                               Classified(@, classification[i].fields)]
                /\ st' = [st EXCEPT ![i] = "done"]
           ELSE /\ st' = [st EXCEPT ![i] = "raised"]
                /\ UNCHANGED heap
    /\ UNCHANGED << pc, envVars, filtered, mainVars, submitted, served,
                    log, classification, yielded, new_results, slot_writes,
                    completed, kept_count, writes >>

\* a slot chosen by the order of completion
SlotByCompletion(i, done) == done + 1

\* lines 91 and 210-211: the index process_tweet returns for call i
SlotOf(i, done) == i

\* lines 209-218, one future of as_completed(futures); future.result()
\* re-raises what process_tweet raised
Collect(i) ==
    /\ pc = "collect"
    /\ Finished(i)
    /\ i \notin yielded
    /\ yielded' = yielded \cup {i}
    /\ IF st[i] = "done"
           THEN /\ new_results' = [new_results EXCEPT ![SlotOf(i, completed)] =
                                       needs_classification[i]]
                /\ slot_writes' = [slot_writes EXCEPT ![SlotOf(i, completed)] = @ + 1]
                /\ completed' = completed + 1
                /\ kept_count' = IF heap[needs_classification[i]]["_skip"]
                                     THEN kept_count
                                     ELSE kept_count + 1
                /\ pc' = IF yielded' = Calls THEN "combine" ELSE "collect"
           ELSE /\ pc' = "unwind"
                /\ UNCHANGED << new_results, slot_writes, completed, kept_count >>
    /\ UNCHANGED << envVars, filtered, heap, mainVars, submitted, st, served,
                    log, classification, writes >>

\* the with block is left by the exception: executor.shutdown(wait=True),
\* then the traceback and a failure status
Unwind ==
    /\ pc = "unwind"
    /\ \A i \in Calls : Finished(i)
    /\ pc' = "traceback"
    /\ UNCHANGED << envVars, filtered, heap, mainVars, poolVars, kept_count, writes >>

(***************************************************************************)
(* main(), after the worker pool                                           *)
(***************************************************************************)
\* Combine with the already classified items first
CombineAlreadyFirst ==
    /\ pc = "combine"
    /\ all_results' = already_classified \o new_results
    /\ pc' = "sort"
    /\ UNCHANGED << envVars, filtered, heap, tweets, existing_classifications,
                    already_classified, needs_classification, poolVars,
                    kept_count, writes >>

\* lines 220-221
Combine ==
    /\ pc = "combine"
    /\ all_results' = new_results \o already_classified
    /\ pc' = "sort"
    /\ UNCHANGED << envVars, filtered, heap, tweets, existing_classifications,
                    already_classified, needs_classification, poolVars,
                    kept_count, writes >>

\* lines 223-224
Sort ==
    /\ pc = "sort"
    /\ all_results' = SortByTs(heap, all_results)
    /\ pc' = "save"
    /\ UNCHANGED << envVars, filtered, heap, tweets, existing_classifications,
                    already_classified, needs_classification, poolVars,
                    kept_count, writes >>

\* lines 226-234
Save ==
    /\ pc = "save"
    /\ filtered' = [exists |-> TRUE, ok |-> TRUE, data |-> Dump(heap, all_results)]
    /\ writes' = writes + 1
    /\ pc' = "done"
    /\ UNCHANGED << envVars, heap, mainVars, poolVars, kept_count >>

Next ==
    \/ CheckKey
    \/ CheckInput
    \/ Load
    \/ LoadLocal
    \/ LoadGist
    \/ Backfill
    \/ Dedup
    \/ Partition
    \/ ShortCircuit
    \/ Dispatch
    \/ Submit
    \/ \E i \in Calls : StartCall(i)
    \/ \E i \in Calls : \E replies \in ReplyPool : ClassifyTweet(i, replies)
    \/ \E i \in Calls : ProcessTweet(i)
    \/ \E i \in Calls : Collect(i)
    \/ Unwind
    \/ Combine
    \/ Sort
    \/ Save

Spec == Init /\ [][Next]_vars

(***************************************************************************)
(* The worker pool on a batch of PoolSize new tweets                       *)
(***************************************************************************)
PoolSize == 3

PoolHandles == << "p", "q", "r", "s", "t", "u", "v", "w" >>

PoolBatch ==
    [i \in 1..PoolSize |->
        [handle |-> PoolHandles[i], name |-> "P", text |-> "t", links |-> <<>>,
         ts |-> i % 2]]

\* the same tweets as an earlier run wrote them
PoolOutput ==
    [i \in 1..PoolSize |-> Update(PoolBatch[i], Rec(FALSE, None, "high", "ml", "old"))]

InitPool ==
    /\ Start
    /\ api_key = TRUE
    /\ collected = [exists |-> TRUE, data |-> PoolBatch]
    /\ filtered \in {[exists |-> FALSE, ok |-> FALSE, data |-> <<>>],
                     [exists |-> TRUE, ok |-> TRUE, data |-> << PoolOutput[1] >>],
                     [exists |-> TRUE, ok |-> TRUE, data |-> PoolOutput]}
    /\ gist = [configured |-> FALSE, ok |-> FALSE, data |-> <<>>]

SpecPool == InitPool /\ [][Next]_vars

\* the same runs when the main thread and the workers keep running and every
\* request is answered
SpecPoolFair == SpecPool /\ WF_vars(Next)

(***************************************************************************)
(* The worker pool on more new tweets than it has threads, every request   *)
(* answered at once                                                        *)
(***************************************************************************)
BusySize == 6

BusyBatch ==
    [i \in 1..BusySize |->
        [handle |-> PoolHandles[i], name |-> "P", text |-> "t", links |-> <<>>,
         ts |-> i % 2]]

InitBusy ==
    /\ Start
    /\ api_key = TRUE
    /\ collected = [exists |-> TRUE, data |-> BusyBatch]
    /\ filtered = [exists |-> FALSE, ok |-> FALSE, data |-> <<>>]
    /\ gist = [configured |-> FALSE, ok |-> FALSE, data |-> <<>>]

NextBusy ==
    \/ CheckKey
    \/ CheckInput
    \/ Load
    \/ LoadLocal
    \/ LoadGist
    \/ Backfill
    \/ Dedup
    \/ Partition
    \/ Dispatch
    \/ Submit
    \/ \E i \in Calls : StartCall(i)
    \/ \E i \in Calls : ClassifyTweet(i, << Reply("json", JsonKeep) >>)
    \/ \E i \in Calls : ProcessTweet(i)
    \/ \E i \in Calls : Collect(i)
    \/ Combine
    \/ Sort
    \/ Save

SpecBusy == InitBusy /\ [][NextBusy]_vars

(***************************************************************************)
(* classify_tweet on one tweet, against every service of MaxReplies replies*)
(***************************************************************************)
MaxReplies == 4

ReplyKinds ==
    {RateLimited, Failed, Reply("json", JsonSkip), Reply("json", JsonKeep),
     Reply("json", JsonArray)}

AllReplies == SeqsUpTo(ReplyKinds, MaxReplies) \ {<<>>}

InitClient ==
    /\ Start
    /\ api_key = TRUE
    /\ collected \in {[exists |-> TRUE, data |-> << t >>] : t \in {TweetA1, TweetA3}}
    /\ filtered = [exists |-> FALSE, ok |-> FALSE, data |-> <<>>]
    /\ gist = [configured |-> FALSE, ok |-> FALSE, data |-> <<>>]

NextClient ==
    \/ CheckKey
    \/ CheckInput
    \/ Load
    \/ LoadLocal
    \/ LoadGist
    \/ Backfill
    \/ Dedup
    \/ Partition
    \/ ShortCircuit
    \/ Dispatch
    \/ Submit
    \/ \E i \in Calls : StartCall(i)
    \/ \E i \in Calls : \E replies \in AllReplies : ClassifyTweet(i, replies)
    \/ \E i \in Calls : ProcessTweet(i)
    \/ \E i \in Calls : Collect(i)
    \/ Unwind
    \/ Combine
    \/ Sort
    \/ Save

SpecClient == InitClient /\ [][NextClient]_vars

(***************************************************************************)
(* Properties                                                              *)
(***************************************************************************)
Range(seq) == {seq[i] : i \in 1..Len(seq)}

\* the positions of the input batch
Batch == 1..Len(collected.data)

\* main() is past the Deduplicate step
PastDedup ==
    pc \in {"partition", "branch", "submit", "collect", "unwind", "traceback",
            "combine", "sort", "save", "done"}

\* C1: after Deduplicate, every key of the batch has exactly one survivor in
\* tweets, the survivor is the first item of the batch with that key, and no
\* later item with the key is kept.
C1_FirstOccurrenceSurvives ==
    PastDedup =>
        /\ \A r \in Batch :
               Cardinality({p \in 1..Len(tweets) :
                               Key(heap[tweets[p]]) = Key(heap[r])}) = 1
        /\ \A p \in 1..Len(tweets) : \A r \in Batch :
               Key(heap[r]) = Key(heap[tweets[p]]) => tweets[p] <= r

\* a duplicate whose text differs past character 50 was dropped between two
\* survivors
C1_Witness ==
    /\ pc = "partition"
    /\ \E r \in Batch : \E q \in Batch :
           /\ r \notin Range(tweets)
           /\ q \in Range(tweets)
           /\ q > r
           /\ \E f \in Range(tweets) :
                  /\ f < r
                  /\ Key(heap[f]) = Key(heap[r])
                  /\ Get(heap[f], "text") # Get(heap[r], "text")

\* C2: a call of the pool exists only for an item that arrived without a skip
\* field and whose key is not in the merged cache, so no request is ever made
\* for an item that arrived classified or that the cache covers.
C2_OnlyUnclassifiedDispatched ==
    \A i \in Calls :
        LET r == needs_classification[i] IN
        /\ r \in Range(tweets)
        /\ ~HasSkip(collected.data[r])
        /\ Key(collected.data[r]) \notin DOMAIN existing_classifications

\* a request was made for one item while the batch also held an item that
\* arrived classified and an item the cache covers
C2_Witness ==
    /\ \E i \in Calls : log[i] # <<>>
    /\ \E r \in Batch : HasSkip(collected.data[r])
    /\ \E r \in Batch :
           /\ ~HasSkip(collected.data[r])
           /\ Key(collected.data[r]) \in DOMAIN existing_classifications

C4_BackfillCopiesRecord ==
    pc = "dedup" =>
        \A r \in Batch :
            (/\ ~HasSkip(collected.data[r])
             /\ Key(collected.data[r]) \in DOMAIN existing_classifications)
            => /\ DOMAIN heap[r] = DOMAIN collected.data[r] \cup ClsFields
               /\ \A f \in ClsFields :
                      heap[r][f] = existing_classifications[Key(collected.data[r])][f]
               /\ \A f \in DOMAIN collected.data[r] :
                      heap[r][f] = collected.data[r][f]

\* an item without a timestamp was backfilled
C4_Witness ==
    /\ pc = "dedup"
    /\ \E r \in Batch :
           /\ ~HasSkip(collected.data[r])
           /\ "ts" \notin DOMAIN collected.data[r]
           /\ Key(collected.data[r]) \in DOMAIN existing_classifications
           /\ HasSkip(heap[r])

\* items is ordered by timestamp descending, a missing timestamp counted as 0
SortedDesc(items) ==
    \A i, j \in 1..Len(items) : i < j => SortKey(items[i]) >= SortKey(items[j])

\* C5 as stated: whatever path wrote the output, the written list is ordered
\* by timestamp descending.
C5_WrittenListSorted == writes > 0 => SortedDesc(filtered.data)

\* C5, amended: when the output is written after the worker pool ran (some
\* item needed classification), the written list is ordered by timestamp
\* descending, a missing timestamp counted as 0.
C5_ClassifyPathSorted ==
    (writes > 0 /\ needs_classification # <<>>) => SortedDesc(filtered.data)

\* the output was written after the pool ran, the sort moved an item, and an
\* item has no timestamp
C5_Witness ==
    /\ pc = "done"
    /\ needs_classification # <<>>
    /\ all_results # new_results \o already_classified
    /\ \E k \in 1..Len(filtered.data) : "ts" \notin DOMAIN filtered.data[k]

\* C6 as stated: whatever the remote call of an item ends in, the call does
\* not end the run: main() never leaves the pool by an exception raised for
\* an item whose request was made.
C6_ItemErrorsNeverEndRun ==
    \A i \in Calls :
        (log[i] # <<>> /\ st[i] = "raised") => pc \notin {"unwind", "traceback"}

Requests(i) == Len(SelectSeq(log[i], LAMBDA e : e.ev = "request"))

Returned(i) == st[i] \in {"classified", "done", "raised"} /\ served[i] # <<>>

\* C8: classify_tweet never makes a 4th request; when the first three
\* requests are all rate-limited it makes 3 requests and returns the default
\* record; when the first is rate-limited and the second answered it returns
\* the parsed answer.
C8_ThreeAttemptsThenDefault ==
    \A i \in Calls :
        Returned(i) =>
            /\ Requests(i) <= 3
            /\ (\A k \in 1..3 : ReplyAt(served[i], k).kind = "rate_limit")
               => /\ Requests(i) = 3
                  /\ classification[i] =
                         [type |-> "object",
                          fields |-> [skip |-> FALSE, quality |-> "medium",
                                      topic |-> "unknown", summary |-> ""]]
            /\ (/\ ReplyAt(served[i], 1).kind = "rate_limit"
                /\ ReplyAt(served[i], 2).kind = "json")
               => /\ Requests(i) = 2
                  /\ classification[i] = ReplyAt(served[i], 2).value

\* a service that would answer a 4th request after three rate limits
C8_Witness ==
    \E i \in Calls :
        /\ st[i] = "classified"
        /\ Len(served[i]) = 4
        /\ \A k \in 1..3 : served[i][k].kind = "rate_limit"
        /\ served[i][4].kind = "json"

ReadPart(data) ==
    SubSeq(data, 1,
           IF \A k \in 1..Len(data) : IsDict(data[k])
               THEN Len(data)
               ELSE (CHOOSE k \in 1..Len(data) :
                        /\ ~IsDict(data[k])
                        /\ \A j \in 1..(k - 1) : IsDict(data[j])) - 1)

\* the sources add_classifications has read when main() is at `at`
SourcesAt(at) ==
    (IF filtered.exists /\ filtered.ok THEN ReadPart(filtered.data) ELSE <<>>)
    \o (IF at # "load_gist" /\ gist.configured /\ gist.ok
            THEN ReadPart(gist.data)
            ELSE <<>>)

\* cache is the first-wins map of the items of src that carry a skip field
FirstWins(cache, src) ==
    /\ DOMAIN cache = {Key(src[k]) : k \in {j \in 1..Len(src) : HasSkip(src[j])}}
    /\ \A k \in 1..Len(src) :
           (/\ HasSkip(src[k])
            /\ \A j \in 1..(k - 1) : HasSkip(src[j]) => Key(src[j]) # Key(src[k]))
           => \A f \in ClsFields : cache[Key(src[k])][f] = Get(src[k], f)

\* C10: after the local output is read, and again after the gist is read,
\* the merged cache holds, for every key of an item with a skip field, the
\* record of the first such item in the order local output, then gist; so a
\* local record is never replaced by the gist and a first item never by a
\* later one.
C10_FirstSourceWins ==
    (pc \in {"load_gist", "backfill", "dedup", "partition", "branch"} /\ writes = 0)
        => FirstWins(existing_classifications, SourcesAt(pc))

\* both sources were read; a key is in both with different records, and the
\* local output holds it twice
C10_Witness ==
    /\ pc = "backfill"
    /\ \E a, b \in 1..Len(filtered.data) : \E g \in 1..Len(gist.data) :
           /\ filtered.exists /\ filtered.ok /\ gist.configured /\ gist.ok
           /\ a < b
           /\ HasSkip(filtered.data[a]) /\ HasSkip(filtered.data[b])
           /\ HasSkip(gist.data[g])
           /\ Key(filtered.data[a]) = Key(filtered.data[b])
           /\ Key(filtered.data[a]) = Key(gist.data[g])
           /\ RecordOf(filtered.data[a]) # RecordOf(filtered.data[b])
           /\ RecordOf(filtered.data[a]) # RecordOf(gist.data[g])
           /\ existing_classifications[Key(gist.data[g])] = RecordOf(filtered.data[a])

\* C11: at every moment at most 5 calls are inside process_tweet (their
\* classify-and-retry sequence started and their future not yet finished),
\* however many items need classification.
C11_AtMostFiveInFlight ==
    Cardinality({i \in Calls : Busy(i)}) <= 5

\* five calls inside classify_tweet while a sixth waits in the queue
C11_Witness ==
    /\ Cardinality({i \in Calls : st[i] = "running"}) = 5
    /\ \E i \in Calls : st[i] = "queued"

\* main() has loaded nothing, created no call and written nothing
NothingDone ==
    /\ heap = <<>>
    /\ tweets = <<>>
    /\ existing_classifications = EmptyDict
    /\ Calls = {}
    /\ submitted = 0
    /\ writes = 0

\* C12: when the credential is absent or the input file is missing the run
\* stops at the failing check (exit status 1): the credential is checked first,
\* nothing is loaded, no call or request is made, nothing is written, and no
\* step of the run changes the output file.
C12_PreconditionFailureDoesNothing ==
    /\ [](~api_key => pc \in {"check_key", "exit1"} /\ NothingDone)
    /\ [](~collected.exists =>
              pc \in {"check_key", "check_input", "exit1"} /\ NothingDone)
    /\ [][(~api_key \/ ~collected.exists) => filtered' = filtered]_vars

\* the run ended with status 1 for the missing credential although the input
\* holds tweets and an earlier output exists
C12_Witness ==
    /\ pc = "exit1"
    /\ ~api_key
    /\ collected.exists /\ collected.data # <<>>
    /\ filtered.exists /\ filtered.ok /\ filtered.data # <<>>

\* the run ended with status 1 for the missing input, the credential present
C12_WitnessInput ==
    /\ pc = "exit1"
    /\ api_key
    /\ ~collected.exists
    /\ filtered.exists /\ filtered.ok

\* the item the run owes for position k of needs_classification followed by
\* already_classified: a function of the input, the cache and the replies to
\* the item's own call
Owed(k) ==
    IF k <= Len(needs_classification)
        THEN Classified(collected.data[needs_classification[k]],
                        classify_tweet(served[k]).value.fields)
        ELSE BackfillOne(collected.data[already_classified[k - Len(needs_classification)]],
                         existing_classifications)

\* the place of Owed(k) in the written list: after every item with a greater
\* timestamp and after the earlier items with the same timestamp
PlaceOf(k, n) ==
    1 + Cardinality({j \in 1..n :
            \/ SortKey(Owed(j)) > SortKey(Owed(k))
            \/ SortKey(Owed(j)) = SortKey(Owed(k)) /\ j < k})

\* C13: the written list of the classify path is a function of the input, the
\* cache and the replies each item got, whatever order the calls ran and
\* finished in: the newly classified items in the order of
\* needs_classification, then the already classified ones in batch order,
\* ordered by timestamp descending with that order kept among equal or
\* missing timestamps.
C13_OutputIndependentOfSchedule ==
    (pc = "done" /\ needs_classification # <<>>) =>
        LET n == Len(needs_classification) + Len(already_classified) IN
        /\ Len(filtered.data) = n
        /\ \A k \in 1..n : filtered.data[PlaceOf(k, n)] = Owed(k)

\* written after two calls: a newly classified item stands before an already
\* classified one of the same timestamp that precedes it in the batch, and
\* the two new items got different replies
C13_Witness ==
    /\ pc = "done"
    /\ Len(needs_classification) >= 2
    /\ already_classified # <<>>
    /\ served[1] # served[2]
    /\ \E p, q \in 1..Len(filtered.data) :
           /\ p < q
           /\ SortKey(filtered.data[p]) = SortKey(filtered.data[q])
           /\ filtered.data[p].handle = heap[needs_classification[Len(needs_classification)]].handle
           /\ filtered.data[q].handle = heap[already_classified[1]].handle
           /\ already_classified[1] < needs_classification[Len(needs_classification)]

\* the attempt of classify_tweet that meets the first reply other than a
\* rate limit, 0 when the three attempts are all rate-limited
FirstOther(replies) ==
    IF \E k \in 1..max_retries : ReplyAt(replies, k).kind # "rate_limit"
        THEN CHOOSE k \in 1..max_retries :
                 /\ ReplyAt(replies, k).kind # "rate_limit"
                 /\ \A j \in 1..(k - 1) : ReplyAt(replies, j).kind = "rate_limit"
        ELSE 0

\* the backoff waits of call i
Sleeps(i) == SelectSeq(log[i], LAMBDA e : e.ev = "sleep")

\* attempt k of classify_tweet raising an exception other than a rate limit
\* ends the call: k requests, no wait after the last one, the default record
OtherErrorsReturnDefaultAtOnce ==
    \A i \in Calls :
        LET k == FirstOther(served[i]) IN
        (Returned(i) /\ k > 0 /\ ReplyAt(served[i], k).kind = "error") =>
            /\ Requests(i) = k
            /\ log[i][Len(log[i])] = Request
            /\ Len(Sleeps(i)) = k - 1
            /\ classification[i] = DefaultRecord

\* C14 as stated: when attempt k of classify_tweet (the first, or one after
\* rate limits) meets an error other than a rate limit (an exception, or a
\* reply whose JSON is not an object), the call makes no further request,
\* waits no more, and returns the default record.
C14_OtherErrorsReturnDefault ==
    \A i \in Calls :
        LET k == FirstOther(served[i]) IN
        (/\ Returned(i)
         /\ k > 0
         /\ \/ ReplyAt(served[i], k).kind = "error"
            \/ /\ ReplyAt(served[i], k).kind = "json"
               /\ ReplyAt(served[i], k).value.type # "object") =>
            /\ Requests(i) = k
            /\ log[i][Len(log[i])] = Request
            /\ Len(Sleeps(i)) = k - 1
            /\ classification[i] = DefaultRecord

\* C15 as stated: the wait after the k-th rate-limited attempt of a call is
\* 2^(k-1) seconds, and every wait is followed by another request of the same
\* call.
C15_BackoffBetweenAttempts ==
    \A i \in Calls :
        Returned(i) =>
            /\ \A k \in 1..Len(Sleeps(i)) : Sleeps(i)[k].secs = 2 ^ (k - 1)
            /\ \A p \in 1..Len(log[i]) :
                   log[i][p].ev = "sleep" =>
                       /\ p < Len(log[i])
                       /\ log[i][p + 1] = Request

\* what a source gives the cache if a source that fails to load gives nothing
Contribution(src, available) ==
    IF available /\ \A k \in 1..Len(src.data) : IsDict(src.data[k])
        THEN src.data
        ELSE <<>>

\* C16 as stated: a cache source that is absent or fails to load does not end
\* the run and contributes no record: once both sources are read the merged
\* cache is the first-wins map of the sources that loaded, and every item
\* without a skip field whose key is in it is backfilled.
C16_FailedSourceSkipped ==
    /\ (api_key /\ collected.exists) => pc # "exit1"
    /\ (pc \in {"backfill", "dedup", "partition", "branch"} /\ writes = 0) =>
           FirstWins(existing_classifications,
                     Contribution(filtered, filtered.exists /\ filtered.ok)
                     \o Contribution(gist, gist.configured /\ gist.ok))
    /\ (pc \in {"dedup", "partition", "branch"}) =>
           \A r \in Batch :
               Key(collected.data[r]) \in DOMAIN existing_classifications
                   => HasSkip(heap[r])

\* C17: Backfill leaves alone every item that arrived with a skip field, also
\* when the cache holds another record for its key, and every item whose key
\* is not in the cache.
C17_BackfillChangesOnlyUnclassified ==
    /\ pc \in {"dedup", "partition", "branch", "submit", "collect", "unwind",
               "traceback", "combine", "sort", "save", "done"} =>
           \A r \in Batch :
               HasSkip(collected.data[r]) => heap[r] = collected.data[r]
    /\ pc \in {"dedup", "partition", "branch"} =>
           \A r \in Batch :
               Key(collected.data[r]) \notin DOMAIN existing_classifications
                   => heap[r] = collected.data[r]

\* after Backfill: an item that arrived with a skip field while the cache
\* holds a different record for its key, and an unclassified item whose key
\* is not in the cache
C17_Witness ==
    /\ pc = "dedup"
    /\ \E r \in Batch :
           /\ HasSkip(collected.data[r])
           /\ Key(collected.data[r]) \in DOMAIN existing_classifications
           /\ existing_classifications[Key(collected.data[r])]
                  # RecordOf(collected.data[r])
    /\ \E r \in Batch :
           /\ ~HasSkip(collected.data[r])
           /\ Key(collected.data[r]) \notin DOMAIN existing_classifications
    /\ existing_classifications # EmptyDict

\* main() has ended: normally, by sys.exit(1), or by an exception
Ended == pc \in {"done", "exit1", "traceback"}

\* every run ends when each step that can be taken is taken in the end
EveryRunEnds == <>Ended

\* C18 as stated: a run that passed both checks ends having written the
\* output exactly once; the output is never written twice, and when the pool
\* ran it is written only after every call completed and every slot of
\* new_results was filled.
C18_EndsAfterOneWrite ==
    /\ (Ended /\ api_key /\ collected.exists) => writes = 1
    /\ writes <= 1
    /\ (writes > 0 /\ Calls # {}) =>
           /\ completed = Len(needs_classification)
           /\ \A i \in Calls :
                  /\ st[i] = "done"
                  /\ new_results[i] = needs_classification[i]

\* the output is written once, after the pool, and before it only when the
\* pool never ran
WrittenOnceAfterPool ==
    /\ writes <= 1
    /\ pc = "done" => writes = 1
    /\ (writes > 0 /\ Calls # {}) =>
           /\ completed = Len(needs_classification)
           /\ \A i \in Calls :
                  /\ st[i] = "done"
                  /\ new_results[i] = needs_classification[i]

C20_WrittenItemsClassified ==
    writes > 0 =>
        /\ \A p \in 1..Len(filtered.data) : HasSkip(filtered.data[p])
        /\ \A i \in Calls :
               LET t == heap[needs_classification[i]] IN
               /\ ClsFields \subseteq DOMAIN t
               /\ \E p \in 1..Len(filtered.data) : filtered.data[p] = t
               /\ ~t["_skip"] => t["_skip_reason"] = None

\* written after the pool ran: a new item kept with the default record,
\* which has no skip reason, beside an item that arrived with its skip field
C20_Witness ==
    /\ pc = "done"
    /\ \E i \in Calls :
           /\ served[i] = << Failed >>
           /\ ~heap[needs_classification[i]]["_skip"]
           /\ heap[needs_classification[i]]["_skip_reason"] = None
    /\ \E k \in 1..Len(already_classified) :
           HasSkip(collected.data[already_classified[k]])

====
